---- MODULE Spec2Model ----
(***************************************************************************)
(* Model of ripgrep-all's multi-mode executable (src/bin/rga.rs) and of    *)
(* its in-process search engine (src/integrated_search.rs).                *)
(*                                                                         *)
(* Text is modelled as a sequence of one-character strings, so that        *)
(* substring tests, prefix tests, splitting, joining and case conversion   *)
(* are computed the way the Rust code computes them.  Search-engine flags  *)
(* are only ever compared whole, and are modelled as TLA+ strings.         *)
(***************************************************************************)
EXTENDS Integers, Sequences, FiniteSets, TLC

(***************************************************************************)
(* Text helpers (the std::str operations the code uses)                    *)
(***************************************************************************)

\* str::starts_with
StartsWith(s, p) ==
    /\ Len(p) <= Len(s)
    /\ SubSeq(s, 1, Len(p)) = p

\* str::ends_with
EndsWith(s, p) ==
    /\ Len(p) <= Len(s)
    /\ SubSeq(s, Len(s) - Len(p) + 1, Len(s)) = p

\* str::contains
Contains(s, p) ==
    \E i \in 1..(Len(s) - Len(p) + 1) : SubSeq(s, i, i + Len(p) - 1) = p

\* the mode markers and subcommand tokens
RgaPreproc == <<"r","g","a","-","p","r","e","p","r","o","c">>
RgaFzfOpen == <<"r","g","a","-","f","z","f","-","o","p","e","n">>
RgaFzf     == <<"r","g","a","-","f","z","f">>
TokPreproc == <<"p","r","e","p","r","o","c">>
TokFzf     == <<"f","z","f">>
TokFzfOpen == <<"f","z","f","-","o","p","e","n">>

Modes == {"main", "preproc", "fzf", "fzf-open"}

\* get_invocation_mode with the subcommand token looked at before argv[0]
get_invocation_mode_token_first(args, envSet, existing) ==
    IF Len(args) > 1 /\ args[2] = TokPreproc THEN "preproc"
    ELSE IF Len(args) > 1 /\ args[2] = TokFzf THEN "fzf"
    ELSE IF Len(args) > 1 /\ args[2] = TokFzfOpen THEN "fzf-open"
    ELSE IF Len(args) > 0 /\ Contains(args[1], RgaPreproc) THEN "preproc"
    ELSE IF Len(args) > 0 /\ Contains(args[1], RgaFzfOpen) THEN "fzf-open"
    ELSE IF Len(args) > 0 /\ Contains(args[1], RgaFzf) THEN "fzf"
    ELSE IF envSet THEN "preproc"
    ELSE IF /\ Len(args) = 2
            /\ ~StartsWith(args[2], <<"-">>)
            /\ args[2] \in existing
         THEN "preproc"
    ELSE "main"

(***************************************************************************)
(* get_invocation_mode: args is argv, envSet says whether RGA_PREPROC_MODE *)
(* is present, existing is the set of paths that name a filesystem entry.  *)
(***************************************************************************)
get_invocation_mode(args, envSet, existing) ==
    IF Len(args) > 0 /\ Contains(args[1], RgaPreproc) THEN "preproc"
    ELSE IF Len(args) > 0 /\ Contains(args[1], RgaFzfOpen) THEN "fzf-open"
    ELSE IF Len(args) > 0 /\ Contains(args[1], RgaFzf) THEN "fzf"
    ELSE IF Len(args) > 1 /\ args[2] = TokPreproc THEN "preproc"
    ELSE IF Len(args) > 1 /\ args[2] = TokFzf THEN "fzf"
    ELSE IF Len(args) > 1 /\ args[2] = TokFzfOpen THEN "fzf-open"
    ELSE IF envSet THEN "preproc"
    ELSE IF /\ Len(args) = 2
            /\ ~StartsWith(args[2], <<"-">>)
            /\ args[2] \in existing
         THEN "preproc"
    ELSE "main"

(***************************************************************************)
(* ASCII case conversion                                                   *)
(***************************************************************************)
LowerChars == <<"a","b","c","d","e","f","g","h","i","j","k","l","m",
                "n","o","p","q","r","s","t","u","v","w","x","y","z">>
UpperChars == <<"A","B","C","D","E","F","G","H","I","J","K","L","M",
                "N","O","P","Q","R","S","T","U","V","W","X","Y","Z">>

IndexIn(c, chars) ==
    IF \E i \in 1..Len(chars) : chars[i] = c
    THEN CHOOSE i \in 1..Len(chars) : chars[i] = c
    ELSE 0

\* str::to_ascii_uppercase
to_ascii_uppercase(s) ==
    [i \in 1..Len(s) |->
        IF IndexIn(s[i], LowerChars) > 0
        THEN UpperChars[IndexIn(s[i], LowerChars)] ELSE s[i]]

\* str::to_lowercase (ASCII texts only)
to_lowercase(s) ==
    [i \in 1..Len(s) |->
        IF IndexIn(s[i], UpperChars) > 0
        THEN LowerChars[IndexIn(s[i], UpperChars)] ELSE s[i]]

\* [String]::join
RECURSIVE Join(_, _)
Join(parts, sep) ==
    IF Len(parts) = 0 THEN <<>>
    ELSE IF Len(parts) = 1 THEN parts[1]
    ELSE parts[1] \o sep \o Join(Tail(parts), sep)

\* str::split(sep) for a one-character separator: always at least one piece
RECURSIVE Split(_, _)
Split(s, sep) ==
    IF \E i \in 1..Len(s) : s[i] = sep
    THEN LET k == CHOOSE i \in 1..Len(s) :
                      s[i] = sep /\ \A j \in 1..(i - 1) : s[j] # sep
         IN  <<SubSeq(s, 1, k - 1)>> \o Split(SubSeq(s, k + 1, Len(s)), sep)
    ELSE <<s>>

(***************************************************************************)
(* The pre-filter glob built in run_main from the adapters' fast matchers  *)
(* (exts is the flattened list of FileExtension matchers).                 *)
(***************************************************************************)
RECURSIVE BothCases(_)
BothCases(exts) ==
    IF Len(exts) = 0 THEN <<>>
    ELSE <<exts[1], to_ascii_uppercase(exts[1])>> \o BothCases(Tail(exts))

pre_glob_of(accurate, exts) ==
    IF ~accurate
    THEN <<"*", ".", "{">> \o Join(BothCases(exts), <<",">>) \o <<"}">>
    ELSE <<"*">>

(***************************************************************************)
(* Bounds and input sets                                                   *)
(***************************************************************************)
\* largest failure exit code of a child process that is enumerated
MaxCode == 2
\* longest captured fuzzy-finder output that is enumerated byte by byte
MaxOut == 3

Rga     == <<"r","g","a">>
BinRga  == <<"/","b","/","r","g","a">>
APdf    == <<"a",".","p","d","f">>
CTxt    == <<"c",".","t","x","t">>
Query   == <<"q">>
DashV   == <<"-","v">>
NL      == "\n"
\* a byte that occurs in no valid UTF-8 text
BadByte == "xFF"

\* argv[0] as the process may see it
Argv0s == {Rga, BinRga, RgaPreproc, RgaFzf, RgaFzfOpen,
           <<"/","b","/">> \o RgaFzf, <<"x">> \o RgaPreproc \o <<"2">>}

\* the arguments after argv[0]
ArgTails == {<<>>, <<APdf>>, <<CTxt>>, <<TokFzf>>, <<TokFzfOpen>>,
             <<TokPreproc>>, <<DashV>>, <<Query, APdf>>, <<TokPreproc, APdf>>,
             <<TokFzf, DashV, Query>>, <<TokFzfOpen, Query, APdf>>,
             <<TokFzfOpen, Query, CTxt>>, <<TokFzfOpen, Query>>}

Argvs == {<<>>} \cup {<<a>> \o t : a \in Argv0s, t \in ArgTails}

\* the filesystems enumerated: which paths name an existing entry
FileSystems == {{}, {APdf, CTxt, TokFzf, TokFzfOpen, TokPreproc}}

\* std::env::current_exe(), a resolved path
ExePaths == {BinRga, <<"/","b","/">> \o RgaFzf}

\* config.fzf_path as split_args may deliver it
FzfPaths == {<<"_">>, <<"_">> \o APdf, <<"_", "_">>, <<>>, APdf, <<"/">> \o CTxt}

\* the flattened fast-matcher extensions of the enabled adapters
Pdf == <<"p","d","f">>
Zip == <<"z","i","p">>
AdapterExts == {<<Pdf, Zip>>, <<Zip>>, <<>>}

\* exit statuses of a child process, as child.wait() reports them
ChildStatuses ==
    {[reported |-> TRUE, success |-> TRUE, hasCode |-> TRUE, code |-> 0]}
    \cup {[reported |-> TRUE, success |-> FALSE, hasCode |-> TRUE, code |-> c] :
             c \in 1..MaxCode}
    \cup {[reported |-> TRUE, success |-> FALSE, hasCode |-> FALSE, code |-> 0]}

RECURSIVE SeqsUpTo(_, _)
SeqsUpTo(S, n) ==
    IF n = 0 THEN {<<>>}
    ELSE LET shorter == SeqsUpTo(S, n - 1)
         IN  shorter \cup {Append(q, x) : q \in shorter, x \in S}

SpecExample ==
    <<"m","y","q","u","e","r","y",NL,
      "/","t","m","p","/","f","i","l","e",".","t","x","t",NL>>

\* what the fuzzy-finder may have written to its captured standard output
FzfOutputs == SeqsUpTo({"q", "f", NL, BadByte}, MaxOut) \cup {SpecExample}

(***************************************************************************)
(* State of one run of the executable                                      *)
(***************************************************************************)
VARIABLES
    argv,         \* std::env::args()
    envSet,       \* RGA_PREPROC_MODE is present in the environment
    fs,           \* the paths that exist
    exe,          \* std::env::current_exe()
    pc,           \* position of the process
    mode,         \* the result of get_invocation_mode
    result,       \* how main ended: "Ok", "Err", "Exit" (process::exit), "Panic"
    exitCode,     \* the exit code of the process, -1 while it runs
    splitOut,     \* run_main: what split_args returned: [some, path, args]
    passthrough,  \* run_main: passthrough_args, when it was computed
    pathModified, \* add_exe_to_path has changed PATH
    child,        \* the child process: "none", "spawnfail", "running", "exited"
    childStatus,  \* the exit status the child reported
    cmd,          \* the command line of the spawned child
    printed,      \* what the run wrote to its standard output
    filterArgv,   \* the last invocation of the executable by the child
    filterMode,   \* the mode that invocation resolved to
    copyRes,      \* run_preproc: the outcome of tokio::io::copy
    fzfOut,       \* run_fzf: the captured output of the fuzzy-finder
    opened        \* run_fzf_open: [evince, generic] launch outcomes

procVars == <<argv, envSet, fs, exe, pc, mode, result, exitCode, splitOut,
              passthrough, pathModified, child, childStatus, cmd, printed,
              filterArgv, filterMode, copyRes, fzfOut, opened>>

(***************************************************************************)
(* State of one IntegratedSearcher::run_async call                         *)
(***************************************************************************)
\* number of entries the directory walk yields, at most
MaxEntries == 3
\* number of matching lines of one file, at most
MaxLines == 1
\* length of the argument lists parse_rg_args is enumerated on, at most
MaxArgs == 3

VARIABLES
    rg_args,        \* the residual argument list
    settings,       \* what parse_rg_args returned
    accurate,       \* config.accurate of the caller that built the glob
    adapter_exts,   \* the fast-matcher extensions of the adapters
    pre_glob,       \* self.pre_glob
    spc,            \* position of run_async: "new", "walking", "done", "parsed"
    found_match,    \* the local found_match
    remaining,      \* entries the walk has still to yield
    sresult,        \* "running", "Ok" or "Err": what run_async returned
    scode,          \* the exit code in Ok, -1 otherwise
    last,           \* the entry handled last: [kind, path, route, failed]
    lineMatches,    \* matching lines the printer was handed, over all files
    failures,       \* files whose open, decode or search failed
    directCalls,    \* calls of search_file
    decodeCalls,    \* calls of search_preprocessed_file_async
    regularSeen     \* regular files the walk has yielded

searchVars == <<rg_args, settings, accurate, adapter_exts, pre_glob, spc,
                found_match, remaining, sresult, scode, last, lineMatches,
                failures, directCalls, decodeCalls, regularSeen>>

vars == <<procVars, searchVars>>

NoSplit  == [some |-> FALSE, path |-> <<>>, args |-> <<>>]
NoCmd    == [prog |-> "none", pre |-> <<>>, glob |-> <<>>, args |-> <<>>,
             query |-> <<>>, envPreproc |-> FALSE]
NoPrint  == [kind |-> "none", query |-> <<>>, file |-> <<>>]
NoStatus == [reported |-> FALSE, success |-> FALSE, hasCode |-> FALSE,
             code |-> 0]
NoOpen   == [evince |-> "no", generic |-> "no"]

Skip1(a) == IF Len(a) = 0 THEN <<>> ELSE Tail(a)

ProcInit ==
    /\ argv \in Argvs
    /\ envSet \in BOOLEAN
    /\ fs \in FileSystems
    /\ exe \in ExePaths
    /\ pc = "start"
    /\ mode = "unresolved"
    /\ result = "running"
    /\ exitCode = -1
    /\ splitOut = NoSplit
    /\ passthrough = <<>>
    /\ pathModified = FALSE
    /\ child = "none"
    /\ childStatus = NoStatus
    /\ cmd = NoCmd
    /\ printed = NoPrint
    /\ filterArgv = <<>>
    /\ filterMode = "none"
    /\ copyRes = "none"
    /\ fzfOut = <<>>
    /\ opened = NoOpen

\* main returns res, or the process ends by process::exit or a panic
Finish(res, code) ==
    /\ pc' = "exit"
    /\ result' = res
    /\ exitCode' = code

ReturnOk  == Finish("Ok", 0)
ReturnErr == Finish("Err", 1)
Panics    == Finish("Panic", 101)

\* main: resolve the mode and dispatch on it
Resolve ==
    /\ pc = "start"
    /\ mode' = get_invocation_mode(argv, envSet, fs)
    /\ pc' = mode'
    /\ UNCHANGED searchVars
    /\ UNCHANGED <<argv, envSet, fs, exe, result, exitCode, splitOut,
                   passthrough, pathModified, child, childStatus, cmd, printed,
                   filterArgv, filterMode, copyRes, fzfOut, opened>>

(***************************************************************************)
(* run_main                                                                *)
(***************************************************************************)
\* the passthrough argument lists split_args may deliver
Passthroughs == {<<>>, <<Query>>, <<DashV, Query>>}

\* &path[1..]: the text after the first character
after_first(path) == SubSeq(path, 2, Len(path))

\* the arguments handed to the external search engine (the fixed flags
\* --no-line-number --smart-case --pre <exe> --pre-glob <glob> are fields)
rg_command(preproc_exe, glob, args) ==
    [prog |-> "rg", pre |-> preproc_exe, glob |-> glob, args |-> args,
     query |-> <<>>, envPreproc |-> TRUE]

\* run_main from its start to the spawn of the external search engine.
\* The inputs are what the collaborators return: split_args (a failure, or
\* the configuration and the passthrough arguments), get_adapters_filtered,
\* add_exe_to_path's join_paths, and Command::spawn.
RunMain ==
    /\ pc = "main"
    /\ \E splitOk \in BOOLEAN, schema \in BOOLEAN, list \in BOOLEAN,
          some \in BOOLEAN, fp \in FzfPaths, pt \in Passthroughs,
          adaptersOk \in BOOLEAN, acc \in BOOLEAN, exts \in AdapterExts,
          pathOk \in BOOLEAN, spawnOk \in BOOLEAN :
        LET path  == IF some THEN fp ELSE <<>>
            given == [some |-> some, path |-> path, args |-> pt]
            args  == IF some /\ path # <<"_">> /\ Len(path) > 0
                     THEN Append(pt, after_first(path)) ELSE pt
            stay  == /\ UNCHANGED <<pathModified, child, cmd>>
        IN
        IF ~splitOk THEN
            /\ ReturnErr
            /\ UNCHANGED <<splitOut, passthrough, printed>> /\ stay
        ELSE IF schema THEN
            /\ ReturnOk
            /\ splitOut' = given /\ passthrough' = pt
            /\ printed' = [NoPrint EXCEPT !.kind = "schema"] /\ stay
        ELSE IF list THEN
            /\ ReturnOk
            /\ splitOut' = given /\ passthrough' = pt
            /\ printed' = [NoPrint EXCEPT !.kind = "adapters"] /\ stay
        ELSE IF some /\ path = <<"_">> THEN
            /\ ReturnOk
            /\ splitOut' = given /\ passthrough' = pt
            /\ printed' = [NoPrint EXCEPT !.kind = "[no file found]"] /\ stay
        ELSE IF some /\ Len(path) = 0 THEN
            \* &path[1..] of an empty string is out of range
            /\ Panics
            /\ splitOut' = given /\ passthrough' = pt
            /\ UNCHANGED printed /\ stay
        ELSE IF Len(args) = 0 THEN
            /\ ReturnOk
            /\ splitOut' = given /\ passthrough' = args
            /\ printed' = [NoPrint EXCEPT !.kind = "help"] /\ stay
        ELSE IF ~adaptersOk THEN
            /\ ReturnErr
            /\ splitOut' = given /\ passthrough' = args
            /\ UNCHANGED printed /\ stay
        ELSE IF ~pathOk THEN
            /\ ReturnErr
            /\ splitOut' = given /\ passthrough' = args
            /\ UNCHANGED <<printed, pathModified, child, cmd>>
        ELSE IF ~spawnOk THEN
            /\ ReturnErr
            /\ splitOut' = given /\ passthrough' = args
            /\ pathModified' = TRUE
            /\ child' = "spawnfail"
            /\ cmd' = rg_command(exe, pre_glob_of(acc, exts), args)
            /\ UNCHANGED printed
        ELSE
            /\ pc' = "waiting"
            /\ splitOut' = given /\ passthrough' = args
            /\ pathModified' = TRUE
            /\ child' = "running"
            /\ cmd' = rg_command(exe, pre_glob_of(acc, exts), args)
            /\ UNCHANGED <<result, exitCode, printed>>
    /\ UNCHANGED searchVars
    /\ UNCHANGED <<argv, envSet, fs, exe, mode, childStatus, filterArgv,
                   filterMode, copyRes, fzfOut, opened>>

\* the file paths the external search engine may hand to its --pre filter
FilterPaths == {APdf, TokFzf, TokFzfOpen, TokPreproc, <<"d","/">> \o APdf}

\* While run_main waits, the external search engine runs `<--pre> <path>`
\* for a file matching the pre-glob; that process inherits the environment
\* of the engine, and resolves its own mode.
RgInvokesFilter ==
    /\ pc = "waiting"
    /\ child = "running"
    /\ \E p \in FilterPaths :
        /\ filterArgv' = <<cmd.pre, p>>
        /\ filterMode' = get_invocation_mode(<<cmd.pre, p>>, cmd.envPreproc,
                                             fs \cup {p})
    /\ UNCHANGED searchVars
    /\ UNCHANGED <<argv, envSet, fs, exe, pc, mode, result, exitCode, splitOut,
                   passthrough, pathModified, child, childStatus, cmd, printed,
                   copyRes, fzfOut, opened>>

\* after_wait with a missing exit code taken for 0
after_wait_zero(st) ==
    IF ~st.success
    THEN [res |-> "Exit", code |-> IF st.hasCode THEN st.code ELSE 0]
    ELSE [res |-> "Ok", code |-> 0]

\* how run_main ends once child.wait() returned the status st: [res, code]
after_wait(st) ==
    IF ~st.success
    THEN [res |-> "Exit", code |-> IF st.hasCode THEN st.code ELSE 1]
    ELSE [res |-> "Ok", code |-> 0]

\* child.wait() returns: the child has terminated; the status is delivered,
\* or wait itself reports an error
RgExits ==
    /\ pc = "waiting"
    /\ child = "running"
    /\ child' = "exited"
    /\ \/ childStatus' = NoStatus /\ ReturnErr
       \/ \E st \in ChildStatuses :
            /\ childStatus' = st
            /\ Finish(after_wait(st).res, after_wait(st).code)
    /\ UNCHANGED searchVars
    /\ UNCHANGED <<argv, envSet, fs, exe, mode, splitOut, passthrough,
                   pathModified, cmd, printed, filterArgv, filterMode,
                   copyRes, fzfOut, opened>>

(***************************************************************************)
(* run_preproc                                                             *)
(***************************************************************************)
\* arg_arr after the "preproc" subcommand token was removed
preproc_args(args) ==
    IF Len(args) > 1 /\ args[2] = TokPreproc
    THEN <<args[1]>> \o SubSeq(args, 3, Len(args))
    ELSE args

\* the kinds of outcome of tokio::io::copy
CopyResults == {"ok", "BrokenPipe", "WriteZero", "Other"}

\* copy_outcome without the broken-pipe exemption
copy_outcome_strict(res) ==
    IF res = "ok" THEN "Ok" ELSE "Err"

\* what run_preproc returns once the copy ended with res
copy_outcome(res) ==
    IF res = "ok" THEN "Ok"
    ELSE IF res = "BrokenPipe" THEN "Ok"
    ELSE "Err"

\* run_preproc as a whole; the inputs are the outcomes of parse_args,
\* File::open, rga_preproc and tokio::io::copy
RunPreproc ==
    /\ pc = "preproc"
    /\ \E parseOk \in BOOLEAN, openOk \in BOOLEAN, adaptOk \in BOOLEAN,
          res \in CopyResults :
        LET arg_arr == preproc_args(argv)
        IN
        IF Len(arg_arr) = 0 THEN
            \* arg_arr.pop().expect("No filename specified")
            Panics /\ UNCHANGED copyRes
        ELSE IF ~parseOk THEN
            ReturnErr /\ UNCHANGED copyRes
        ELSE IF ~(openOk /\ arg_arr[Len(arg_arr)] \in fs) THEN
            ReturnErr /\ UNCHANGED copyRes
        ELSE IF ~adaptOk THEN
            ReturnErr /\ UNCHANGED copyRes
        ELSE
            /\ copyRes' = res
            /\ IF copy_outcome(res) = "Ok" THEN ReturnOk ELSE ReturnErr
    /\ UNCHANGED searchVars
    /\ UNCHANGED <<argv, envSet, fs, exe, mode, splitOut, passthrough,
                   pathModified, child, childStatus, cmd, printed, filterArgv,
                   filterMode, fzfOut, opened>>

(***************************************************************************)
(* run_fzf                                                                 *)
(***************************************************************************)
\* passthrough_args of run_fzf: the arguments without the "fzf" token
fzf_args(args) ==
    LET rest == Skip1(args)
    IN  IF Len(rest) > 0 /\ rest[1] = TokFzf THEN Tail(rest) ELSE rest

\* the first argument that is no flag, or the empty text
initial_query(pargs) ==
    IF \E i \in 1..Len(pargs) : ~StartsWith(pargs[i], <<"-">>)
    THEN pargs[CHOOSE i \in 1..Len(pargs) :
                   /\ ~StartsWith(pargs[i], <<"-">>)
                   /\ \A j \in 1..(i - 1) : StartsWith(pargs[j], <<"-">>)]
    ELSE <<>>

\* std::str::from_utf8 succeeds
valid_utf8(bytes) == \A i \in 1..Len(bytes) : bytes[i] # BadByte

\* The reading of the captured output: [ok, query, file].  The output is
\* split at every newline byte; the first piece is the query and the second
\* the selected file.
read_fzf_output(out) ==
    LET x == Split(out, NL)
    IN  IF ~valid_utf8(x[1])
        THEN [ok |-> FALSE, query |-> <<>>, file |-> <<>>]
        ELSE IF Len(x) < 2
        THEN [ok |-> FALSE, query |-> <<>>, file |-> <<>>]
        ELSE IF ~valid_utf8(x[2])
        THEN [ok |-> FALSE, query |-> <<>>, file |-> <<>>]
        ELSE [ok |-> TRUE, query |-> x[1], file |-> x[2]]

\* run_fzf up to the spawn of the fuzzy-finder
RunFzf ==
    /\ pc = "fzf"
    /\ \E exeOk \in BOOLEAN, spawnOk \in BOOLEAN :
        LET started == [prog |-> "fzf", pre |-> exe, glob |-> <<>>,
                        args |-> <<>>,
                        query |-> initial_query(fzf_args(argv)),
                        envPreproc |-> envSet]
        IN
        IF ~exeOk THEN
            ReturnErr /\ UNCHANGED <<child, cmd>>
        ELSE IF ~spawnOk THEN
            ReturnErr /\ child' = "spawnfail" /\ cmd' = started
        ELSE
            /\ pc' = "fzf-wait"
            /\ child' = "running"
            /\ cmd' = started
            /\ UNCHANGED <<result, exitCode>>
    /\ UNCHANGED searchVars
    /\ UNCHANGED <<argv, envSet, fs, exe, mode, splitOut, passthrough,
                   pathModified, childStatus, printed, filterArgv, filterMode,
                   copyRes, fzfOut, opened>>

\* child.wait_with_output() returns and its output is read
FzfExits ==
    /\ pc = "fzf-wait"
    /\ \E out \in FzfOutputs, waitOk \in BOOLEAN :
        /\ child' = "exited"
        /\ IF ~waitOk THEN
               ReturnErr /\ UNCHANGED <<fzfOut, printed>>
           ELSE
               /\ fzfOut' = out
               /\ IF read_fzf_output(out).ok
                  THEN /\ ReturnOk
                       /\ printed' = [kind  |-> "fzf",
                                      query |-> read_fzf_output(out).query,
                                      file  |-> read_fzf_output(out).file]
                  ELSE ReturnErr /\ UNCHANGED printed
    /\ UNCHANGED searchVars
    /\ UNCHANGED <<argv, envSet, fs, exe, mode, splitOut, passthrough,
                   pathModified, childStatus, cmd, filterArgv, filterMode,
                   copyRes, opened>>

(***************************************************************************)
(* run_fzf_open                                                            *)
(***************************************************************************)
DotPdf == <<".","p","d","f">>

\* the query and the file name among the arguments: [ok, query, fname]
open_args(args) ==
    LET rest == Skip1(args)
        bad  == [ok |-> FALSE, query |-> <<>>, fname |-> <<>>]
    IN  IF Len(rest) = 0 THEN bad
        ELSE IF rest[1] = TokFzfOpen
        THEN IF Len(rest) < 3 THEN bad
             ELSE [ok |-> TRUE, query |-> rest[2], fname |-> rest[3]]
        ELSE IF Len(rest) < 2 THEN bad
             ELSE [ok |-> TRUE, query |-> rest[1], fname |-> rest[2]]

\* the outcomes of launching the format-specific opener
SpawnResults == {"ok", "NotFound", "PermissionDenied", "Other"}

\* specific_opener with every launch failure taken for a missing opener
specific_opener_lenient(ev) ==
    IF ev = "ok" THEN "worked" ELSE "fallback"

\* what run_fzf_open makes of the launch of the format-specific opener:
\* it "worked", it was not found ("fallback"), or the error is "fatal"
specific_opener(ev) ==
    IF ev = "ok" THEN "worked"
    ELSE IF ev = "NotFound" THEN "fallback"
    ELSE "fatal"

RunFzfOpen ==
    /\ pc = "fzf-open"
    /\ \E ev \in SpawnResults, genericOk \in BOOLEAN :
        LET a == open_args(argv)
            generic == IF genericOk THEN "ok" ELSE "err"
        IN
        IF ~a.ok THEN
            ReturnErr /\ UNCHANGED opened
        ELSE IF EndsWith(a.fname, DotPdf) /\ specific_opener(ev) = "worked" THEN
            ReturnOk /\ opened' = [evince |-> ev, generic |-> "no"]
        ELSE IF EndsWith(a.fname, DotPdf) /\ specific_opener(ev) = "fatal" THEN
            ReturnErr /\ opened' = [evince |-> ev, generic |-> "no"]
        ELSE
            /\ opened' = [evince  |-> IF EndsWith(a.fname, DotPdf)
                                      THEN ev ELSE "no",
                          generic |-> generic]
            /\ IF genericOk THEN ReturnOk ELSE ReturnErr
    /\ UNCHANGED searchVars
    /\ UNCHANGED <<argv, envSet, fs, exe, mode, splitOut, passthrough,
                   pathModified, child, childStatus, cmd, printed, filterArgv,
                   filterMode, copyRes, fzfOut>>

ProcNext ==
    \/ Resolve
    \/ RunMain
    \/ RgInvokesFilter
    \/ RgExits
    \/ RunPreproc
    \/ RunFzf
    \/ FzfExits
    \/ RunFzfOpen

(***************************************************************************)
(* IntegratedSearcher (src/integrated_search.rs)                           *)
(***************************************************************************)

\* color_value with the two-token form left unhandled
color_value_ignored(acc, v) == acc

\* one step of parse_rg_args' loop on a --color value
color_value(acc, v) ==
    IF v = "always" THEN [acc EXCEPT !.color = "Always"]
    ELSE IF v = "never" THEN [acc EXCEPT !.color = "Never"]
    ELSE IF v = "auto" THEN [acc EXCEPT !.color = "Auto"]
    ELSE acc

\* parse_rg_args' loop from index i (1-based) with the settings so far
RECURSIVE parse_from(_, _, _)
parse_from(args, i, acc) ==
    IF i > Len(args) THEN acc
    ELSE LET arg == args[i] IN
        IF arg = "--smart-case"
        THEN parse_from(args, i + 1, [acc EXCEPT !.smart_case = TRUE])
        ELSE IF arg \in {"--case-sensitive", "-s"}
        THEN parse_from(args, i + 1, [acc EXCEPT !.smart_case = FALSE])
        ELSE IF arg \in {"--ignore-case", "-i"}
        THEN parse_from(args, i + 1, [acc EXCEPT !.smart_case = FALSE])
        ELSE IF arg = "--no-line-number"
        THEN parse_from(args, i + 1, [acc EXCEPT !.no_line_number = TRUE])
        ELSE IF arg \in {"--line-number", "-n"}
        THEN parse_from(args, i + 1, [acc EXCEPT !.no_line_number = FALSE])
        ELSE IF arg = "--color=always"
        THEN parse_from(args, i + 1, [acc EXCEPT !.color = "Always"])
        ELSE IF arg = "--color=never"
        THEN parse_from(args, i + 1, [acc EXCEPT !.color = "Never"])
        ELSE IF arg = "--color=auto"
        THEN parse_from(args, i + 1, [acc EXCEPT !.color = "Auto"])
        ELSE IF arg = "--color"
        THEN IF i + 1 <= Len(args)
             THEN parse_from(args, i + 2, color_value(acc, args[i + 1]))
             ELSE parse_from(args, i + 1, acc)
        ELSE parse_from(args, i + 1, acc)

\* parse_rg_args: (smart_case, no_line_number, color)
parse_rg_args(args) ==
    parse_from(args, 1,
               [smart_case |-> TRUE, no_line_number |-> FALSE, color |-> "Auto"])

\* The configuration of the matcher run_async builds from the settings:
\* RegexMatcherBuilder::new().case_smart(smart_case); the builder's
\* case_insensitive option is never set and keeps its default
matcher_config(s) ==
    [case_smart |-> s.smart_case, case_insensitive |-> FALSE]

\* Path::file_name for the path of a regular file: the last component
file_name(path) ==
    IF \E i \in 1..Len(path) : path[i] = "/"
    THEN LET k == CHOOSE i \in 1..Len(path) :
                      path[i] = "/" /\ \A j \in (i + 1)..Len(path) : path[j] # "/"
         IN  SubSeq(path, k + 1, Len(path))
    ELSE path

\* Path::extension: [some, ext]; none without a dot in the file name, and
\* none when the only dot begins the file name
extension(path) ==
    LET name == file_name(path)
        dots == {i \in 1..Len(name) : name[i] = "."}
        k    == CHOOSE i \in dots : \A j \in dots : j <= i
    IN  IF dots = {} \/ k = 1
        THEN [some |-> FALSE, ext |-> <<>>]
        ELSE [some |-> TRUE, ext |-> SubSeq(name, k + 1, Len(name))]

GlobOpen == <<"*", ".", "{">>
GlobClose == <<"}">>

\* should_preprocess with the file's extension compared as it is spelled
should_preprocess_cased(glob, path) ==
    IF glob = <<"*">> THEN TRUE
    ELSE IF extension(path).some
    THEN LET ext_str == extension(path).ext
         IN  IF StartsWith(glob, GlobOpen)
                /\ EndsWith(SubSeq(glob, 4, Len(glob)), GlobClose)
             THEN LET exts  == SubSeq(glob, 4, Len(glob) - 1)
                      parts == Split(exts, ",")
                  IN  \E i \in 1..Len(parts) : to_lowercase(parts[i]) = ext_str
             ELSE FALSE
    ELSE FALSE

\* should_preprocess
should_preprocess(glob, path) ==
    IF glob = <<"*">> THEN TRUE
    ELSE IF extension(path).some
    THEN LET ext_str == to_lowercase(extension(path).ext)
         IN  IF StartsWith(glob, GlobOpen)
                /\ EndsWith(SubSeq(glob, 4, Len(glob)), GlobClose)
             THEN LET exts  == SubSeq(glob, 4, Len(glob) - 1)
                      parts == Split(exts, ",")
                  IN  \E i \in 1..Len(parts) : to_lowercase(parts[i]) = ext_str
             ELSE FALSE
    ELSE FALSE

\* search_file: Ok(found) from the outcome of searcher.search_path; lines
\* is the number of matching lines the search handed to the printer
search_file(searchOk, lines) ==
    IF searchOk THEN TRUE ELSE FALSE

\* search_preprocessed_file_async once the decoded content is there:
\* Ok(found) from the outcome of searcher.search_slice
search_slice_found(searchOk, lines) ==
    IF searchOk THEN TRUE ELSE FALSE

\* what search_preprocessed_file_async does with the result of
\* preprocess_file_async: "propagate" the error (the ? operator), or go on
on_preprocess_result(openOk, decodeOk, readOk) ==
    IF openOk /\ decodeOk /\ readOk THEN "search" ELSE "propagate"

\* the exit code run_async returns after the walk
exit_code(found) == IF found THEN 0 ELSE 1

NoSettings == [smart_case |-> TRUE, no_line_number |-> FALSE, color |-> "Auto"]
NoEntry    == [kind |-> "none", path |-> <<>>, route |-> "none", failed |-> FALSE]

\* the argument lists run_async is started with
SearchArgs == {<<>>, <<"--no-line-number", "--smart-case">>,
               <<"-i", "--color", "always">>, <<"--color=never", "-s", "-n">>}

\* every token parse_rg_args tells apart, and two it does not know
ArgTokens == {"--smart-case", "--case-sensitive", "-s", "--ignore-case", "-i",
              "--no-line-number", "--line-number", "-n",
              "--color=always", "--color=never", "--color=auto", "--color",
              "always", "never", "auto", "--hidden", "bogus"}

\* the paths of the regular files a walk may yield
WalkPaths == {APdf, <<"A",".","P","D","F">>, <<"b",".","z","i","p">>, CTxt,
              <<"x">>, DotPdf, <<"p",".","d","/","f">>,
              <<"d","/","e",".","Z","i","p">>}

SearchIdle ==
    /\ rg_args = <<>>
    /\ settings = NoSettings
    /\ accurate = FALSE
    /\ adapter_exts = <<>>
    /\ pre_glob = <<>>
    /\ spc = "off"
    /\ found_match = FALSE
    /\ remaining = 0
    /\ sresult = "running"
    /\ scode = -1
    /\ last = NoEntry
    /\ lineMatches = 0
    /\ failures = 0
    /\ directCalls = 0
    /\ decodeCalls = 0
    /\ regularSeen = 0

ProcIdle ==
    /\ argv = <<>>
    /\ envSet = FALSE
    /\ fs = {}
    /\ exe = BinRga
    /\ pc = "off"
    /\ mode = "unresolved"
    /\ result = "running"
    /\ exitCode = -1
    /\ splitOut = NoSplit
    /\ passthrough = <<>>
    /\ pathModified = FALSE
    /\ child = "none"
    /\ childStatus = NoStatus
    /\ cmd = NoCmd
    /\ printed = NoPrint
    /\ filterArgv = <<>>
    /\ filterMode = "none"
    /\ copyRes = "none"
    /\ fzfOut = <<>>
    /\ opened = NoOpen

\* IntegratedSearcher::new with the glob its caller built, and the inputs
\* of run_async
SearchInit ==
    /\ rg_args \in SearchArgs
    /\ settings = NoSettings
    /\ accurate \in BOOLEAN
    /\ adapter_exts \in AdapterExts
    /\ pre_glob = pre_glob_of(accurate, adapter_exts)
    /\ spc = "new"
    /\ found_match = FALSE
    /\ remaining \in 0..MaxEntries
    /\ sresult = "running"
    /\ scode = -1
    /\ last = NoEntry
    /\ lineMatches = 0
    /\ failures = 0
    /\ directCalls = 0
    /\ decodeCalls = 0
    /\ regularSeen = 0

\* run_async up to the walk: the arguments are parsed and the matcher built
SearchStart ==
    /\ spc = "new"
    /\ settings' = parse_rg_args(rg_args)
    /\ \E patternOk \in BOOLEAN :
        IF patternOk
        THEN spc' = "walking" /\ UNCHANGED <<sresult, scode>>
        ELSE spc' = "done" /\ sresult' = "Err" /\ scode' = -1
    /\ UNCHANGED procVars
    /\ UNCHANGED <<rg_args, accurate, adapter_exts, pre_glob, found_match,
                   remaining, last, lineMatches, failures, directCalls,
                   decodeCalls, regularSeen>>

\* the walk yields an error or an entry that is no regular file
WalkSkip ==
    /\ spc = "walking"
    /\ remaining > 0
    /\ remaining' = remaining - 1
    /\ \E k \in {"walk-error", "directory"} :
        last' = [kind |-> k, path |-> <<>>, route |-> "none", failed |-> FALSE]
    /\ UNCHANGED procVars
    /\ UNCHANGED <<rg_args, settings, accurate, adapter_exts, pre_glob, spc,
                   found_match, sresult, scode, lineMatches, failures,
                   directCalls, decodeCalls, regularSeen>>

\* a regular file the glob does not select: search_file
SearchDirect ==
    /\ spc = "walking"
    /\ remaining > 0
    /\ \E path \in {p \in WalkPaths : ~should_preprocess(pre_glob, p)},
          searchOk \in BOOLEAN, lines \in 0..MaxLines :
        /\ found_match' = (found_match \/ search_file(searchOk, lines))
        /\ last' = [kind |-> "file", path |-> path, route |-> "direct",
                    failed |-> ~searchOk]
        /\ lineMatches' = IF searchOk THEN lineMatches + lines ELSE lineMatches
        /\ failures' = IF searchOk THEN failures ELSE failures + 1
    /\ remaining' = remaining - 1
    /\ directCalls' = directCalls + 1
    /\ regularSeen' = regularSeen + 1
    /\ UNCHANGED procVars
    /\ UNCHANGED <<rg_args, settings, accurate, adapter_exts, pre_glob, spc,
                   sresult, scode, decodeCalls>>

\* a regular file the glob selects: search_preprocessed_file_async
SearchDecoded ==
    /\ spc = "walking"
    /\ remaining > 0
    /\ \E path \in {p \in WalkPaths : should_preprocess(pre_glob, p)},
          openOk \in BOOLEAN, decodeOk \in BOOLEAN,
          readOk \in BOOLEAN, searchOk \in BOOLEAN, lines \in 0..MaxLines :
        /\ IF on_preprocess_result(openOk, decodeOk, readOk) = "propagate"
           THEN \* the error leaves run_async through `.await?`
                /\ spc' = "done"
                /\ sresult' = "Err"
                /\ scode' = -1
                /\ last' = [kind |-> "file", path |-> path, route |-> "decode",
                            failed |-> TRUE]
                /\ failures' = failures + 1
                /\ UNCHANGED <<found_match, lineMatches>>
           ELSE /\ found_match' =
                       (found_match \/ search_slice_found(searchOk, lines))
                /\ last' = [kind |-> "file", path |-> path, route |-> "decode",
                            failed |-> ~searchOk]
                /\ lineMatches' =
                       IF searchOk THEN lineMatches + lines ELSE lineMatches
                /\ failures' = IF searchOk THEN failures ELSE failures + 1
                /\ UNCHANGED <<spc, sresult, scode>>
    /\ remaining' = remaining - 1
    /\ decodeCalls' = decodeCalls + 1
    /\ regularSeen' = regularSeen + 1
    /\ UNCHANGED procVars
    /\ UNCHANGED <<rg_args, settings, accurate, adapter_exts, pre_glob,
                   directCalls>>

\* the walk is over: Ok(if found_match { 0 } else { 1 })
SearchReturn ==
    /\ spc = "walking"
    /\ remaining = 0
    /\ spc' = "done"
    /\ sresult' = "Ok"
    /\ scode' = exit_code(found_match)
    /\ UNCHANGED procVars
    /\ UNCHANGED <<rg_args, settings, accurate, adapter_exts, pre_glob,
                   found_match, remaining, last, lineMatches, failures,
                   directCalls, decodeCalls, regularSeen>>

SearchNext ==
    \/ SearchStart
    \/ WalkSkip
    \/ SearchDirect
    \/ SearchDecoded
    \/ SearchReturn

\* parse_rg_args on its own, over every short argument list
ArgsInit ==
    /\ rg_args \in SeqsUpTo(ArgTokens, MaxArgs)
    /\ settings = NoSettings
    /\ accurate = FALSE
    /\ adapter_exts = <<>>
    /\ pre_glob = <<>>
    /\ spc = "args"
    /\ found_match = FALSE
    /\ remaining = 0
    /\ sresult = "running"
    /\ scode = -1
    /\ last = NoEntry
    /\ lineMatches = 0
    /\ failures = 0
    /\ directCalls = 0
    /\ decodeCalls = 0
    /\ regularSeen = 0

ParseArgs ==
    /\ spc = "args"
    /\ settings' = parse_rg_args(rg_args)
    /\ spc' = "parsed"
    /\ UNCHANGED procVars
    /\ UNCHANGED <<rg_args, accurate, adapter_exts, pre_glob, found_match,
                   remaining, sresult, scode, last, lineMatches, failures,
                   directCalls, decodeCalls, regularSeen>>

(***************************************************************************)
(* Specifications                                                          *)
(***************************************************************************)
\* one run of the executable
Init == ProcInit /\ SearchIdle
Next == ProcNext
Spec == Init /\ [][Next]_vars

\* one call of IntegratedSearcher::run_async
InitSearch == ProcIdle /\ SearchInit
NextSearch == SearchNext
SpecSearch == InitSearch /\ [][NextSearch]_vars

\* one call of parse_rg_args
InitArgs == ProcIdle /\ ArgsInit
NextArgs == ParseArgs
SpecArgs == InitArgs /\ [][NextArgs]_vars

(***************************************************************************)
(* Properties of the mode resolution                                       *)
(***************************************************************************)
\* the rules of the resolution order, each on its own
Rule1(args) ==
    /\ Len(args) > 0
    /\ \E m \in {RgaPreproc, RgaFzfOpen, RgaFzf} : Contains(args[1], m)
Rule2(args) ==
    /\ Len(args) > 1
    /\ args[2] \in {TokPreproc, TokFzf, TokFzfOpen}
Rule3(env) == env
Rule4(args, existing) ==
    /\ Len(args) = 2
    /\ (Len(args[2]) = 0 \/ args[2][1] # "-")
    /\ args[2] \in existing

\* the modes whose marker occurs in the program name
MarkerModes(name) ==
    {m \in Modes :
        \/ m = "preproc" /\ Contains(name, RgaPreproc)
        \/ m = "fzf-open" /\ Contains(name, RgaFzfOpen)
        \/ m = "fzf" /\ Contains(name, RgaFzf)}

\* the mode a subcommand token names
TokenMode(tok) ==
    IF tok = TokPreproc THEN "preproc"
    ELSE IF tok = TokFzf THEN "fzf"
    ELSE "fzf-open"

\* the mode a program whose file name is exactly a marker stands for
NamedMode(name) ==
    IF name = RgaPreproc THEN "preproc"
    ELSE IF name = RgaFzfOpen THEN "fzf-open"
    ELSE IF name = RgaFzf THEN "fzf"
    ELSE "none"

\* C1: once main has resolved the mode, it is exactly one of the four modes,
\* and it is the mode of the first rule that matches, in the order argv[0]
\* marker, subcommand token, environment signal, single existing non-flag
\* argument, Main: a marker in argv[0] wins over everything else (and a
\* program named exactly after a marker gets that marker's mode).
C1_RuleOrder ==
    pc # "start" =>
        /\ mode \in Modes
        /\ Rule1(argv) =>
              /\ mode \in MarkerModes(argv[1])
              /\ NamedMode(file_name(argv[1])) # "none"
                    => mode = NamedMode(file_name(argv[1]))
        /\ (~Rule1(argv) /\ Rule2(argv)) => mode = TokenMode(argv[2])
        /\ (~Rule1(argv) /\ ~Rule2(argv) /\ Rule3(envSet)) => mode = "preproc"
        /\ (~Rule1(argv) /\ ~Rule2(argv) /\ ~Rule3(envSet) /\ Rule4(argv, fs))
              => mode = "preproc"
        /\ (~Rule1(argv) /\ ~Rule2(argv) /\ ~Rule3(envSet) /\ ~Rule4(argv, fs))
              => mode = "main"

\* C1 witness: a program named after the fuzzy-finder mode was started with
\* the preproc token, the environment signal and an existing file, and
\* resolved to the mode of its name.
C1_Witness ==
    /\ pc # "start"
    /\ Len(argv) = 3
    /\ Contains(argv[1], RgaFzf) /\ ~Contains(argv[1], RgaFzfOpen)
    /\ argv[2] = TokPreproc
    /\ argv[3] \in fs
    /\ envSet
    /\ mode = "fzf"

\* C2: every invocation of the executable as the content filter of the
\* search engine run_main spawned (RGA_PREPROC_MODE set, no mode marker in
\* the program name) resolves to Preprocess mode, whatever the file path.
C2_FilterIsPreproc ==
    (/\ Len(filterArgv) = 2
     /\ cmd.prog = "rg"
     /\ cmd.envPreproc
     /\ ~Rule1(filterArgv))
        => filterMode = "preproc"

(***************************************************************************)
(* Properties of run_preproc, run_main and run_fzf                         *)
(***************************************************************************)
\* C5: when the copy to standard output fails with a broken pipe the process
\* finishes successfully with exit code 0; when it fails with any other
\* kind of error run_preproc returns an error.
C5_BrokenPipe ==
    /\ copyRes = "BrokenPipe" => (pc = "exit" /\ result = "Ok" /\ exitCode = 0)
    /\ copyRes \notin {"none", "ok", "BrokenPipe"}
          => (pc = "exit" /\ result = "Err" /\ exitCode # 0)

\* C5 witness: a preprocess run whose copy ended with a broken pipe
C5_Witness ==
    /\ mode = "preproc"
    /\ copyRes = "BrokenPipe"
    /\ pc = "exit"

\* C6: run_main does not end while the spawned search engine still runs; a
\* reported non-success ends the process with the child's exit code, or 1
\* when there is none; a reported success ends it with 0; a failed spawn
\* ends it with an error and nothing is waited for.
C6_ExitPropagation ==
    mode = "main" =>
        /\ pc = "exit" => child # "running"
        /\ (pc = "exit" /\ childStatus.reported /\ ~childStatus.success)
              => /\ result = "Exit"
                 /\ exitCode = IF childStatus.hasCode THEN childStatus.code
                               ELSE 1
        /\ (pc = "exit" /\ childStatus.reported /\ childStatus.success)
              => (result = "Ok" /\ exitCode = 0)
        /\ child = "spawnfail"
              => (pc = "exit" /\ result = "Err" /\ ~childStatus.reported)

\* C6 witness: the search engine was killed by a signal (no exit code) and
\* run_main has ended
C6_Witness ==
    /\ mode = "main"
    /\ pc = "exit"
    /\ child = "exited"
    /\ childStatus.reported /\ ~childStatus.success /\ ~childStatus.hasCode

\* the number of lines of a captured output: the newline-terminated ones and
\* a last unterminated one
LineCount(out) ==
    Cardinality({i \in 1..Len(out) : out[i] = NL})
    + (IF Len(out) > 0 /\ out[Len(out)] # NL THEN 1 ELSE 0)

\* C7: run_fzf reads the query and the selected path from the captured
\* output: for "myquery\n/tmp/file.txt\n" it prints query myquery and file
\* /tmp/file.txt, and it prints a result only when the output had two lines
\* (with fewer it returns an error).
C7_TwoLines ==
    /\ (pc = "exit" /\ fzfOut = SpecExample)
          => printed = [kind  |-> "fzf",
                        query |-> <<"m","y","q","u","e","r","y">>,
                        file  |-> <<"/","t","m","p","/","f","i","l","e",
                                    ".","t","x","t">>]
    /\ printed.kind = "fzf" => LineCount(fzfOut) >= 2

\* C8: when config.fzf_path is the marker "_" alone, run_main returns
\* success, appends nothing, leaves PATH alone and spawns nothing; for any
\* other value the marker prefix is stripped and the rest appended to the
\* passthrough arguments.
C8_Sentinel ==
    (/\ mode = "main"
     /\ pc \in {"waiting", "exit"}
     /\ splitOut.some
     /\ printed.kind \notin {"schema", "adapters"})
        => IF splitOut.path = <<"_">>
           THEN /\ result = "Ok"
                /\ passthrough = splitOut.args
                /\ ~pathModified
                /\ child = "none"
           ELSE /\ result # "Panic"
                /\ \E rest \in {after_first(splitOut.path)} :
                      /\ splitOut.path = <<"_">> \o rest
                      /\ passthrough = Append(splitOut.args, rest)

(***************************************************************************)
(* Properties of IntegratedSearcher                                        *)
(***************************************************************************)
\* C3: run_async returns 0 if some line of some file matched and 1
\* otherwise; with every file scanned without error and no matching line
\* the result is 1.
C3_ExitCode ==
    (spc = "done" /\ sresult = "Ok")
        => scode = IF lineMatches > 0 THEN 0 ELSE 1

\* C4: a file whose open, decode or search fails is skipped: the walk goes
\* on to every later entry and run_async returns an exit code, not an error.
C4_FailureTolerated ==
    (spc = "done" /\ failures > 0)
        => (sresult = "Ok" /\ scode \in {0, 1} /\ remaining = 0)

UpperPdf == <<"A",".","P","D","F">>
BZip     == <<"b",".","z","i","p">>
FastGlob == <<"*",".","{","p","d","f",",","P","D","F",",",
              "z","i","p",",","Z","I","P","}">>

\* C10: every regular file goes through exactly one of search_file and
\* search_preprocessed_file_async; with the fast glob of the extensions
\* pdf and zip, a.pdf, A.PDF and b.zip are decoded and c.txt is searched
\* directly; in accurate mode the glob is "*" and every file is decoded.
C10_Routing ==
    /\ directCalls + decodeCalls = regularSeen
    /\ (spc # "off" /\ spc # "args" /\ accurate) => pre_glob = <<"*">>
    /\ (spc # "off" /\ spc # "args" /\ ~accurate /\ adapter_exts = <<Pdf, Zip>>)
          => pre_glob = FastGlob
    /\ last.kind = "file" =>
          /\ last.route \in {"direct", "decode"}
          /\ accurate => last.route = "decode"
          /\ (~accurate /\ adapter_exts = <<Pdf, Zip>>) =>
                /\ last.path \in {APdf, UpperPdf, BZip} => last.route = "decode"
                /\ last.path = CTxt => last.route = "direct"

\* C10 witness: in fast mode with the extensions pdf and zip the walk
\* yielded A.PDF, which was sent to the decode path
C10_Witness ==
    /\ ~accurate
    /\ adapter_exts = <<Pdf, Zip>>
    /\ last.kind = "file"
    /\ last.path = UpperPdf
    /\ last.route = "decode"
    /\ decodeCalls > 0

(***************************************************************************)
(* Properties of parse_rg_args                                             *)
(***************************************************************************)
CaseFlags == {"--smart-case", "--case-sensitive", "-s", "--ignore-case", "-i"}
LineFlags == {"--no-line-number", "--line-number", "-n"}

\* the color choice the flag at position i asks for, in either form
ColorOf(args, i) ==
    IF args[i] = "--color=always" THEN "Always"
    ELSE IF args[i] = "--color=never" THEN "Never"
    ELSE IF args[i] = "--color=auto" THEN "Auto"
    ELSE IF args[i] = "--color" /\ i + 1 <= Len(args)
    THEN IF args[i + 1] = "always" THEN "Always"
         ELSE IF args[i + 1] = "never" THEN "Never"
         ELSE IF args[i + 1] = "auto" THEN "Auto"
         ELSE "none"
    ELSE "none"

\* position i holds the value token of a two-token --color before it
RECURSIVE IsColorValue(_, _)
IsColorValue(args, i) ==
    /\ i > 1
    /\ args[i - 1] = "--color"
    /\ ~IsColorValue(args, i - 1)

Latest(S) == CHOOSE i \in S : \A j \in S : j <= i

\* the settings the last flag of each group among the positions P asks for
LastWins(args, P) ==
    LET cs == {i \in P : args[i] \in CaseFlags}
        ls == {i \in P : args[i] \in LineFlags}
        ks == {i \in P : ColorOf(args, i) # "none"}
    IN  [smart_case     |-> IF cs = {} THEN TRUE
                            ELSE args[Latest(cs)] = "--smart-case",
         no_line_number |-> IF ls = {} THEN FALSE
                            ELSE args[Latest(ls)] = "--no-line-number",
         color          |-> IF ks = {} THEN "Auto"
                            ELSE ColorOf(args, Latest(ks))]

\* C9 as stated: for every argument list the settings are those of the last
\* recognized flag of each group anywhere in the list, --color X counting
\* like --color=X, whatever tokens surround the flags.
C9_LastWinsAnywhere ==
    spc = "parsed" => settings = LastWins(rg_args, 1..Len(rg_args))

\* C9 amended: --color X and --color=X give the same color choice, and the
\* settings are those of the last recognized flag of each group among the
\* tokens that are not the value token following a two-token --color.
C9_LastWins ==
    spc = "parsed" =>
        settings = LastWins(rg_args,
                       {i \in 1..Len(rg_args) : ~IsColorValue(rg_args, i)})

\* C9 witness: the two-token form comes last after a conflicting one-token
\* form, and wins
C9_Witness ==
    /\ spc = "parsed"
    /\ rg_args = <<"--color=never", "--color", "always">>
    /\ settings.color = "Always"

(***************************************************************************)
(* Properties of run_fzf_open                                              *)
(***************************************************************************)
\* the file name run_fzf_open was given ends with .pdf
OpensPdf ==
    LET n == Len(open_args(argv).fname)
    IN  /\ n >= 4
        /\ SubSeq(open_args(argv).fname, n - 3, n) = <<".","p","d","f">>

\* C11: for a .pdf path the format-specific opener is tried first; when it
\* launches the generic opener is not invoked; when it is not found the
\* generic opener is invoked; on any other launch error run_fzf_open returns
\* an error and the generic opener is not invoked; for any other path only
\* the generic opener is invoked.
C11_OpenerFallback ==
    (mode = "fzf-open" /\ pc = "exit" /\ open_args(argv).ok) =>
        /\ OpensPdf => opened.evince # "no"
        /\ opened.evince = "ok" => (opened.generic = "no" /\ result = "Ok")
        /\ opened.evince = "NotFound" => opened.generic # "no"
        /\ opened.evince \notin {"no", "ok", "NotFound"}
              => (opened.generic = "no" /\ result = "Err")
        /\ ~OpensPdf => (opened.evince = "no" /\ opened.generic # "no")
        /\ opened.generic # "no" => opened.evince \in {"no", "NotFound"}

\* C11 witness: the specific opener failed to launch for a reason other than
\* being absent, for a .pdf path, and the run ended
C11_Witness ==
    /\ mode = "fzf-open"
    /\ pc = "exit"
    /\ open_args(argv).ok
    /\ OpensPdf
    /\ opened.evince = "PermissionDenied"
    /\ opened.generic = "no"

(***************************************************************************)
(* Properties of the case-sensitivity translation                          *)
(***************************************************************************)
\* the case mode a case flag asks for
CaseRequest(tok) ==
    IF tok = "--smart-case" THEN "smart"
    ELSE IF tok \in {"--case-sensitive", "-s"} THEN "sensitive"
    ELSE "ignore"

\* the positions of the case flags that are read as flags
CasePositions(args) ==
    {i \in 1..Len(args) : args[i] \in CaseFlags /\ ~IsColorValue(args, i)}

\* C12: the matcher configuration tells the three case modes apart: with the
\* last case flag of the list exchanged for a flag of another mode
\* (--ignore-case/-i against --case-sensitive/-s against --smart-case) the
\* configuration differs, and with a flag of the same mode it is the same.
C12_CaseFlagsDistinct ==
    (spc = "parsed" /\ CasePositions(rg_args) # {}) =>
        LET k == Latest(CasePositions(rg_args))
        IN  \A tok \in CaseFlags :
                (CaseRequest(tok) = CaseRequest(rg_args[k]))
                <=> (matcher_config(parse_rg_args([rg_args EXCEPT ![k] = tok]))
                        = matcher_config(settings))

====
